---- MODULE Spec2Model ----
(***************************************************************************)
(* Crowdfunding projects app: the Project / Donation / Rating /            *)
(* ProjectReport tables and the request handlers of projects/api_views.py, *)
(* projects/views.py and projects/admin.py that read and write them.       *)
(*                                                                         *)
(* Every handler is a sequence of database statements run in autocommit    *)
(* mode; each statement is one atomic step, and the steps of two requests  *)
(* being served at the same time interleave.  A request slot keeps the     *)
(* handler's local variables (the loaded model instance, the request data) *)
(* between its steps, and its response once it is done.  Its field note    *)
(* records what the store held when the handler looked (the stored status  *)
(* at get_object, the funding at the cancel check, the row an upsert       *)
(* found), for the properties to refer to.                                 *)
(*                                                                         *)
(* Money is counted in halves of an EGP where a request carries it (so     *)
(* that "0.5" is a possible input); stored amounts are whole EGP.  Time is *)
(* counted in days.                                                        *)
(***************************************************************************)
EXTENDS Integers, Sequences, FiniteSets, TLC

VARIABLES projects, donations, ratings, project_reports, comments,
          comment_reports, now, reqs

vars == <<projects, donations, ratings, project_reports, comments,
         comment_reports, now, reqs>>

(* ------------------------------ bounds -------------------------------- *)

\* the clock stops here
MaxTime == 8
\* at most this many Donation rows
MaxDonations == 2
\* at most this many Comment rows
MaxComments == 1

(* --------------------------- input domains ---------------------------- *)

Users == {"owner", "alice"}
Reqs == {"r1", "r2"}

\* a user who is not the owner of the project
Visitors == {"alice"}

PK == "p1"

\* request.data['amount'] / the form's amount, in halves of an EGP:
\* -10, 0, 0.5, 10 and 240 EGP
AmountInputs == {-20, 0, 1, 20, 480}

\* request.data['value'] / the form's value, in halves: 0, 3, 5, 5.5 and 6
RatingInputs == {0, 6, 10, 11, 12}

\* request.data['report_type']
ReportTypeInputs == {"spam", "other", "bogus"}

\* the ids a Comment row can have
CommentIds == 1..MaxComments

\* request.data['comment_id'] / ['parent_id']: 0 when the key is absent
CommentIdInputs == 0..MaxComments

\* request.data['content']
ContentInputs == {"", "good luck"}

NoInst == [none |-> TRUE]
NoData == "no_data"

Idle == [kind |-> "none", pc |-> "idle", user |-> "none", pk |-> "none",
         data |-> NoData, inst |-> NoInst, seen |-> "none", note |-> <<>>,
         resp |-> "none"]

InFlight(r) == reqs[r].pc \notin {"idle", "done"}
Free(r) == ~InFlight(r)

\* the slot of a finished request: who asked, the response and the note
Done(q, resp) == [q EXCEPT !.pc = "done", !.resp = resp, !.data = NoData,
                           !.inst = NoInst, !.seen = "none"]

\* the same for a handler whose response does not depend on who asked
DoneAnon(q, resp) == [Done(q, resp) EXCEPT !.user = "none"]

(* ------------------------------ models.py ----------------------------- *)

STATUS_CHOICES == {"active", "completed", "canceled", "expired"}

RECURSIVE SumAmounts(_)
SumAmounts(rows) ==
    IF rows = <<>> THEN 0 ELSE Head(rows).amount + SumAmounts(Tail(rows))

\* the rows of every project
RowsOfAnyProject(rows, pk) == rows

\* self.donations: the Donation rows whose project is pk
RowsOf(rows, pk) == SelectSeq(rows, LAMBDA d : d.project = pk)

\* Project.total_donations_collected: Sum('amount') over self.donations
\* an ordering with the oldest row first
OrderingOldestFirst(L) ==
    \A i \in 1..(Len(L) - 1) : L[i].donated_at <= L[i + 1].donated_at

\* Donation.Meta.ordering = ['-donated_at']
Ordering(L) ==
    \A i \in 1..(Len(L) - 1) : L[i].donated_at >= L[i + 1].donated_at

\* project.donations.all(): the rows of the project in an order the ordering
\* allows (rows of equal donated_at come in any order)
DonationsAll(pk) ==
    LET rows == RowsOf(donations, pk)
        n == Len(rows)
        Perms == {f \in [1..n -> 1..n] : \A i, j \in 1..n : f[i] = f[j] => i = j}
    IN {L \in {[i \in 1..n |-> rows[f[i]]] : f \in Perms} : Ordering(L)}

total_donations_collected(pk) == SumAmounts(RowsOf(donations, pk))

Min(a, b) == IF a <= b THEN a ELSE b

\* the percentage without the cap at 100
PercentFundedUncapped(inst, pk) ==
    IF inst.total_target > 0
    THEN (total_donations_collected(pk) * 100) \div inst.total_target
    ELSE 0

\* Project.percent_funded, rounded down to a whole percent (the float
\* min(100, total / target * 100) compares with 25 as its floor does)
percent_funded(inst, pk) ==
    IF inst.total_target > 0
    THEN Min(100, (total_donations_collected(pk) * 100) \div inst.total_target)
    ELSE 0

\* Project.is_active_campaign
is_active_campaign(inst) == inst.status = "active" /\ inst.end_time > now

\* the Rating rows of a project, over the users in us
RECURSIVE RatingRows(_, _, _)
RatingRows(tbl, pk, us) ==
    IF us = {} THEN <<>>
    ELSE LET u == CHOOSE x \in us : TRUE IN
         tbl[<<pk, u>>] \o RatingRows(tbl, pk, us \ {u})

RECURSIVE SumValues(_)
SumValues(vals) == IF vals = <<>> THEN 0 ELSE Head(vals) + SumValues(Tail(vals))

RECURSIVE Factorial(_)
Factorial(n) == IF n <= 1 THEN 1 ELSE n * Factorial(n - 1)

\* average_rating is a float: it is kept as a multiple of 1/AvgScale, which
\* is exact for the average of up to Cardinality(Users) whole numbers
AvgScale == Factorial(Cardinality(Users))

\* self.ratings.aggregate(avg_value=Avg('value'), count_value=Count('value'));
\* avg_value is <<>> for None
RatingAggregate(tbl, pk) ==
    LET vals == RatingRows(tbl, pk, Users) IN
    [avg_value |-> IF vals = <<>> THEN <<>>
                   ELSE <<(SumValues(vals) * AvgScale) \div Len(vals)>>,
     count_value |-> Len(vals)]

\* Project.update_rating_summary: from the aggregate to the two saved fields
SummaryFields(agg) ==
    [average_rating |-> IF agg.avg_value # <<>> THEN agg.avg_value[1] ELSE 0,
     rating_count |-> agg.count_value]

\* a refresh by save() without update_fields: the whole instance is
\* written, with the status active that the API loaded it with
SaveSummaryWholeRow(rows, pk, f) ==
    [rows EXCEPT ![pk].average_rating = f.average_rating,
                 ![pk].rating_count = f.rating_count,
                 ![pk].status = "active"]

\* a refresh that adds the aggregate to the stored count
SaveSummaryAccumulating(rows, pk, f) ==
    [rows EXCEPT ![pk].average_rating = f.average_rating,
                 ![pk].rating_count = @ + f.rating_count]

\* Project.update_rating_summary: save(update_fields=['average_rating',
\* 'rating_count']) of the row pk in the table rows
SaveSummary(rows, pk, f) ==
    [rows EXCEPT ![pk].average_rating = f.average_rating,
                 ![pk].rating_count = f.rating_count]

\* no unique constraint on Rating
RatingNotConstrained(rows) == TRUE

\* Rating.Meta.unique_together = ('project', 'user'): may a row be inserted
RatingUnique(rows) == rows = <<>>

\* no unique constraint on the report tables
ReportNotConstrained(rows) == TRUE

\* ProjectReport.Meta.unique_together = ('project', 'reporter')
ProjectReportUnique(rows) == rows = <<>>

REPORT_STATUS == {"pending", "resolved", "rejected"}
REPORT_TYPES == {"spam", "hateful_content", "misleading", "other"}

\* a Report row that is born resolved
NewReportResolved(type) == [report_type |-> type, status |-> "resolved"]

\* a Report row as the model's defaults make it
NewReport(type) == [report_type |-> type, status |-> "pending"]

\* CommentReport.Meta.unique_together = ('comment', 'reporter')
CommentReportUnique(rows) == rows = <<>>

\* a Comment row as the model's defaults make it; parent 0 is None
NewComment(pk, u, content, parent) ==
    [project |-> pk, user |-> u, content |-> content, parent |-> parent,
     is_active |-> TRUE]

(* ----------------------------- api_views.py --------------------------- *)

\* ProjectViewSet.get_queryset: the projects the API can address
get_queryset == {pk \in DOMAIN projects : projects[pk].status = "active"}

\* float(amount) <= 0
AmountNotPositive(h) == h <= 0

\* IntegerField.get_prep_value: int(value), truncating towards zero
IntPrep(h) == IF h >= 0 THEN h \div 2 ELSE -((-h) \div 2)

NewDonation(pk, u, amt) ==
    [project |-> pk, user |-> u, amount |-> amt, donated_at |-> now]

\* ProjectViewSet.donate, up to the amount checks
DonateStart(r, u, pk, h) ==
    /\ Free(r)
    /\ LET q == [Idle EXCEPT !.kind = "donate", !.user = u, !.pk = pk] IN
       reqs' = [reqs EXCEPT ![r] =
          IF pk \notin get_queryset THEN DoneAnon(q, "404_not_found")
          ELSE IF h = 0 THEN DoneAnon(q, "400_amount_required")
          ELSE IF AmountNotPositive(h) THEN DoneAnon(q, "400_amount_not_positive")
          ELSE [q EXCEPT !.pc = "donate_check", !.data = h,
                         !.inst = projects[pk]]]
    /\ UNCHANGED <<projects, donations, ratings, project_reports, now,
                   comments, comment_reports>>

\* ProjectViewSet.donate: if not project.is_active_campaign
DonateCheck(r) ==
    /\ reqs[r].pc = "donate_check"
    /\ reqs' = [reqs EXCEPT ![r] =
          IF ~is_active_campaign(reqs[r].inst)
          THEN DoneAnon(reqs[r], "400_campaign_not_active")
          ELSE [reqs[r] EXCEPT !.pc = "donate_create"]]
    /\ UNCHANGED <<projects, donations, ratings, project_reports, now,
                   comments, comment_reports>>

\* ProjectViewSet.donate: Donation.objects.create(...)
DonateCreate(r) ==
    /\ reqs[r].pc = "donate_create"
    /\ Len(donations) < MaxDonations
    /\ donations' = Append(donations,
          NewDonation(reqs[r].pk, reqs[r].user, IntPrep(reqs[r].data)))
    /\ reqs' = [reqs EXCEPT ![r] = DoneAnon(reqs[r], "201_created")]
    /\ UNCHANGED <<projects, ratings, project_reports, now,
                   comments, comment_reports>>

\* the owner check of ProjectViewSet.cancel
CancelNotOwner(inst, u) == inst.owner # u

\* the status check of ProjectViewSet.cancel
CancelNotActive(inst) == inst.status # "active"

\* the funding check with > for >=
CancelTooFundedAbove25(inst, pk) == percent_funded(inst, pk) > 25

\* the funding check of ProjectViewSet.cancel
CancelTooFunded(inst, pk) == percent_funded(inst, pk) >= 25

\* the instance get_object loads: the row and, from get_queryset's
\* annotate, the donation total at the time of the load (unused by cancel)
Annotated(pk) ==
    projects[pk] @@ [total_donations_annotated |-> total_donations_collected(pk)]

\* ProjectViewSet.cancel: get_object and the checks on the loaded instance
CancelStart(r, u, pk) ==
    /\ Free(r)
    /\ LET q == [Idle EXCEPT !.kind = "cancel", !.user = u, !.pk = pk,
                             !.note = <<projects[pk].status>>] IN
       reqs' = [reqs EXCEPT ![r] =
          IF pk \notin get_queryset THEN Done(q, "404_not_found")
          ELSE IF CancelNotOwner(projects[pk], u) THEN Done(q, "403_not_owner")
          ELSE IF CancelNotActive(projects[pk])
               THEN Done(q, "400_already_" \o projects[pk].status)
          ELSE [q EXCEPT !.pc = "cancel_check", !.inst = Annotated(pk)]]
    /\ UNCHANGED <<projects, donations, ratings, project_reports, now,
                   comments, comment_reports>>

\* the funding check of a handler that has set and saved the status first
CancelCheckAfterSave(r) ==
    /\ reqs[r].pc = "cancel_check"
    /\ projects' = [projects EXCEPT ![reqs[r].pk].status = "canceled"]
    /\ LET pct == percent_funded(reqs[r].inst, reqs[r].pk) IN
       reqs' = [reqs EXCEPT ![r] =
          IF CancelTooFunded(reqs[r].inst, reqs[r].pk)
          THEN Done([reqs[r] EXCEPT !.note = Append(@, pct)], "400_funded_25_plus")
          ELSE [reqs[r] EXCEPT !.pc = "cancel_save", !.note = Append(@, pct)]]
    /\ UNCHANGED <<donations, ratings, project_reports, now,
                   comments, comment_reports>>

\* the funding check made on the total annotated when the instance was loaded
CancelCheckStaleTotal(r) ==
    /\ reqs[r].pc = "cancel_check"
    /\ LET inst == reqs[r].inst
           pct == IF inst.total_target > 0
                  THEN Min(100, (inst.total_donations_annotated * 100)
                                   \div inst.total_target)
                  ELSE 0 IN
       reqs' = [reqs EXCEPT ![r] =
          IF pct >= 25
          THEN Done([reqs[r] EXCEPT !.note = Append(@, pct)], "400_funded_25_plus")
          ELSE [reqs[r] EXCEPT !.pc = "cancel_save", !.note = Append(@, pct)]]
    /\ UNCHANGED <<projects, donations, ratings, project_reports, now,
                   comments, comment_reports>>

\* ProjectViewSet.cancel: if project.percent_funded >= 25
CancelCheck(r) ==
    /\ reqs[r].pc = "cancel_check"
    /\ LET pct == percent_funded(reqs[r].inst, reqs[r].pk) IN
       reqs' = [reqs EXCEPT ![r] =
          IF CancelTooFunded(reqs[r].inst, reqs[r].pk)
          THEN Done([reqs[r] EXCEPT !.note = Append(@, pct)], "400_funded_25_plus")
          ELSE [reqs[r] EXCEPT !.pc = "cancel_save", !.note = Append(@, pct)]]
    /\ UNCHANGED <<projects, donations, ratings, project_reports, now,
                   comments, comment_reports>>

\* what ProjectViewSet.cancel saves: project.save(update_fields=['status'])
CancelWrite(row) == [row EXCEPT !.status = "canceled"]

CancelSave(r) ==
    /\ reqs[r].pc = "cancel_save"
    /\ projects' = [projects EXCEPT ![reqs[r].pk] = CancelWrite(@)]
    /\ reqs' = [reqs EXCEPT ![r] = Done(reqs[r], "200_cancelled")]
    /\ UNCHANGED <<donations, ratings, project_reports, now,
                   comments, comment_reports>>

\* int(rating_value) of a JSON number given in halves, and the range check
RatingValueValid(h) == IntPrep(h) >= 1 /\ IntPrep(h) <= 5

\* Rating.objects.update_or_create, the row found: the value is overwritten
RatingUpdated(k, v) == [ratings EXCEPT ![k] = <<v>> \o Tail(@)]

\* Rating.objects.update_or_create, no row found: a row is inserted
RatingInserted(k, v) == [ratings EXCEPT ![k] = Append(@, v)]

\* the post_save receiver update_project_rating_summary, run in the
\* transaction of the write that made the table tbl
SignalRefresh(tbl, pk) ==
    SaveSummary(projects, pk, SummaryFields(RatingAggregate(tbl, pk)))

\* update_or_create: the select-for-update get; a row found is overwritten
\* and its post_save receiver run before the transaction commits
UpdateOrCreateGet(r, pcCreate, pcRefresh) ==
    LET q == reqs[r]
        k == <<q.pk, q.user>> IN
    IF Len(ratings[k]) > 1
    THEN /\ reqs' = [reqs EXCEPT ![r] = Done(q, "500_multiple_objects")]
         /\ UNCHANGED <<projects, ratings>>
    ELSE IF Len(ratings[k]) = 1
    THEN /\ ratings' = RatingUpdated(k, q.data)
         /\ projects' = SignalRefresh(ratings', q.pk)
         /\ reqs' = [reqs EXCEPT ![r].pc = pcRefresh,
                                 ![r].note = <<"updated", ratings[k][1]>>]
    ELSE /\ reqs' = [reqs EXCEPT ![r].pc = pcCreate]
         /\ UNCHANGED <<projects, ratings>>

\* update_or_create: the insert after a get that found nothing; when the
\* unique constraint refuses it, the row is fetched and overwritten instead
UpdateOrCreateCreate(r, pcRefresh) ==
    LET q == reqs[r]
        k == <<q.pk, q.user>> IN
    /\ ratings' = IF RatingUnique(ratings[k]) THEN RatingInserted(k, q.data)
                  ELSE RatingUpdated(k, q.data)
    /\ projects' = SignalRefresh(ratings', q.pk)
    /\ reqs' = [reqs EXCEPT ![r].pc = pcRefresh,
                            ![r].note = IF ratings[k] = <<>> THEN <<"created">>
                                        ELSE <<"updated", ratings[k][1]>>]

\* project.update_rating_summary() of the handler: the aggregate query
RefreshAggregate(r, pcSave) ==
    reqs' = [reqs EXCEPT ![r].pc = pcSave,
                         ![r].seen = SummaryFields(RatingAggregate(ratings, reqs[r].pk))]

\* project.update_rating_summary() of the handler: the save
RefreshSave(r, resp) ==
    /\ projects' = SaveSummary(projects, reqs[r].pk, reqs[r].seen)
    /\ reqs' = [reqs EXCEPT ![r] = Done(reqs[r], resp)]

\* ProjectViewSet.rate, up to the value checks
RateStart(r, u, pk, h) ==
    /\ Free(r)
    /\ LET q == [Idle EXCEPT !.kind = "rate", !.user = u, !.pk = pk] IN
       reqs' = [reqs EXCEPT ![r] =
          IF pk \notin get_queryset THEN Done(q, "404_not_found")
          ELSE IF h = 0 THEN Done(q, "400_value_required")
          ELSE IF ~RatingValueValid(h) THEN Done(q, "400_value_out_of_range")
          ELSE [q EXCEPT !.pc = "rate_get", !.data = IntPrep(h)]]
    /\ UNCHANGED <<projects, donations, ratings, project_reports, now,
                   comments, comment_reports>>

RateGet(r) ==
    /\ reqs[r].pc = "rate_get"
    /\ UpdateOrCreateGet(r, "rate_create", "rate_refresh")
    /\ UNCHANGED <<donations, project_reports, now, comments, comment_reports>>

RateCreate(r) ==
    /\ reqs[r].pc = "rate_create"
    /\ UpdateOrCreateCreate(r, "rate_refresh")
    /\ UNCHANGED <<donations, project_reports, now, comments, comment_reports>>

RateRefresh(r) ==
    /\ reqs[r].pc = "rate_refresh"
    /\ RefreshAggregate(r, "rate_save")
    /\ UNCHANGED <<projects, donations, ratings, project_reports, now,
                   comments, comment_reports>>

RateSave(r) ==
    /\ reqs[r].pc = "rate_save"
    /\ RefreshSave(r, "201_created")
    /\ UNCHANGED <<donations, ratings, project_reports, now,
                   comments, comment_reports>>

\* the pre-check looking at pending reports only
ProjectReportPendingExists(pk, u) ==
    \E i \in 1..Len(project_reports[<<pk, u>>]) :
       project_reports[<<pk, u>>][i].status = "pending"

\* ProjectReport.objects.filter(project=project, reporter=request.user).exists()
ProjectReportExists(pk, u) == project_reports[<<pk, u>>] # <<>>

\* ProjectReportSerializer.is_valid: report_type is one of the choices
ReportSerializerValid(type) == type \in REPORT_TYPES

\* ProjectViewSet.report_project: get_object
ReportProjectStart(r, u, pk, type) ==
    /\ Free(r)
    /\ LET q == [Idle EXCEPT !.kind = "report_project", !.user = u, !.pk = pk] IN
       reqs' = [reqs EXCEPT ![r] =
          IF pk \notin get_queryset THEN Done(q, "404_not_found")
          ELSE [q EXCEPT !.pc = "report_check", !.data = type]]
    /\ UNCHANGED <<projects, donations, ratings, project_reports, now,
                   comments, comment_reports>>

\* ProjectViewSet.report_project: the duplicate pre-check
ReportProjectCheck(r) ==
    /\ reqs[r].pc = "report_check"
    /\ reqs' = [reqs EXCEPT ![r] =
          LET q == [reqs[r] EXCEPT !.note =
                      <<Len(project_reports[<<reqs[r].pk, reqs[r].user>>])>>] IN
          IF ProjectReportExists(q.pk, q.user)
          THEN Done(q, "400_already_reported")
          ELSE [q EXCEPT !.pc = "report_save"]]
    /\ UNCHANGED <<projects, donations, ratings, project_reports, now,
                   comments, comment_reports>>

\* ProjectViewSet.report_project: serializer.is_valid and serializer.save
ReportProjectSave(r) ==
    LET q == reqs[r]
        k == <<q.pk, q.user>> IN
    /\ q.pc = "report_save"
    /\ IF ~ReportSerializerValid(q.data)
       THEN /\ reqs' = [reqs EXCEPT ![r] = Done(q, "400_invalid")]
            /\ UNCHANGED project_reports
       ELSE IF ~ProjectReportUnique(project_reports[k])
       THEN /\ reqs' = [reqs EXCEPT ![r] = Done(q, "500_integrity_error")]
            /\ UNCHANGED project_reports
       ELSE /\ project_reports' =
                 [project_reports EXCEPT ![k] = Append(@, NewReport(q.data))]
            /\ reqs' = [reqs EXCEPT ![r] = Done(q, "201_created")]
    /\ UNCHANGED <<projects, donations, ratings, now,
                   comments, comment_reports>>

\* Comment.objects.get(id=..., project=project) finds a row
CommentFound(id, pk) == id \in 1..Len(comments) /\ comments[id].project = pk

\* CommentSerializer.is_valid: content is required and not blank
CommentSerializerValid(content) == content # ""

\* ProjectViewSet.comment
comment(r, u, pk, parent_id, content) ==
    LET q == [Idle EXCEPT !.kind = "comment", !.user = u, !.pk = pk] IN
    /\ Free(r)
    /\ IF pk \notin get_queryset
       THEN /\ reqs' = [reqs EXCEPT ![r] = Done(q, "404_not_found")]
            /\ UNCHANGED comments
       ELSE IF parent_id # 0 /\ ~CommentFound(parent_id, pk)
       THEN /\ reqs' = [reqs EXCEPT ![r] = Done(q, "400_parent_not_found")]
            /\ UNCHANGED comments
       ELSE IF ~CommentSerializerValid(content)
       THEN /\ reqs' = [reqs EXCEPT ![r] = Done(q, "400_invalid")]
            /\ UNCHANGED comments
       ELSE /\ Len(comments) < MaxComments
            /\ comments' = Append(comments, NewComment(pk, u, content, parent_id))
            /\ reqs' = [reqs EXCEPT ![r] = Done(q, "201_created")]
    /\ UNCHANGED <<projects, donations, ratings, project_reports, now,
                   comment_reports>>

\* a pre-check that looks for any comment report of the reporter
CommentReportOfReporterExists(id, u) ==
    \E k \in DOMAIN comment_reports : k[2] = u /\ comment_reports[k] # <<>>

\* CommentReport.objects.filter(comment=..., reporter=request.user).exists()
CommentReportExists(id, u) == comment_reports[<<id, u>>] # <<>>

\* ProjectViewSet.report_comment: get_object, comment_id and the comment
ReportCommentStart(r, u, pk, comment_id, type) ==
    /\ Free(r)
    /\ LET q == [Idle EXCEPT !.kind = "report_comment", !.user = u, !.pk = pk] IN
       reqs' = [reqs EXCEPT ![r] =
          IF pk \notin get_queryset THEN Done(q, "404_not_found")
          ELSE IF comment_id = 0 THEN Done(q, "400_comment_id_required")
          ELSE IF ~CommentFound(comment_id, pk)
               THEN Done(q, "404_comment_not_found")
          ELSE [q EXCEPT !.pc = "report_comment_check",
                         !.data = <<comment_id, type>>]]
    /\ UNCHANGED <<projects, donations, ratings, project_reports, now,
                   comments, comment_reports>>

\* ProjectViewSet.report_comment: the duplicate pre-check
ReportCommentCheck(r) ==
    /\ reqs[r].pc = "report_comment_check"
    /\ reqs' = [reqs EXCEPT ![r] =
          LET k == <<reqs[r].data[1], reqs[r].user>>
              q == [reqs[r] EXCEPT !.note = <<Len(comment_reports[k])>>] IN
          IF CommentReportExists(k[1], k[2])
          THEN Done(q, "400_already_reported")
          ELSE [q EXCEPT !.pc = "report_comment_save"]]
    /\ UNCHANGED <<projects, donations, ratings, project_reports, now,
                   comments, comment_reports>>

\* ProjectViewSet.report_comment: serializer.is_valid and serializer.save
ReportCommentSave(r) ==
    LET q == reqs[r]
        k == <<q.data[1], q.user>> IN
    /\ q.pc = "report_comment_save"
    /\ IF ~ReportSerializerValid(q.data[2])
       THEN /\ reqs' = [reqs EXCEPT ![r] = Done(q, "400_invalid")]
            /\ UNCHANGED comment_reports
       ELSE IF ~CommentReportUnique(comment_reports[k])
       THEN /\ reqs' = [reqs EXCEPT ![r] = Done(q, "500_integrity_error")]
            /\ UNCHANGED comment_reports
       ELSE /\ comment_reports' =
                 [comment_reports EXCEPT ![k] = Append(@, NewReport(q.data[2]))]
            /\ reqs' = [reqs EXCEPT ![r] = Done(q, "201_created")]
    /\ UNCHANGED <<projects, donations, ratings, project_reports, now,
                   comments>>

(* ------------------------------- views.py ----------------------------- *)

\* DonationForm.is_valid: a whole number, min_value 0 (PositiveIntegerField)
DonationFormValid(h) == h % 2 = 0 /\ h \div 2 >= 0

\* make_donation, up to form.is_valid()
MakeDonationStart(r, u, pk, h) ==
    /\ Free(r)
    /\ pk \in DOMAIN projects
    /\ LET q == [Idle EXCEPT !.kind = "make_donation", !.user = u, !.pk = pk] IN
       reqs' = [reqs EXCEPT ![r] =
          IF ~DonationFormValid(h) THEN DoneAnon(q, "302_error_amount")
          ELSE [q EXCEPT !.pc = "make_donation_save", !.data = h]]
    /\ UNCHANGED <<projects, donations, ratings, project_reports, now,
                   comments, comment_reports>>

\* make_donation: donation.save()
MakeDonationSave(r) ==
    /\ reqs[r].pc = "make_donation_save"
    /\ Len(donations) < MaxDonations
    /\ donations' = Append(donations,
          NewDonation(reqs[r].pk, reqs[r].user, reqs[r].data \div 2))
    /\ reqs' = [reqs EXCEPT ![r] = DoneAnon(reqs[r], "302_thank_you")]
    /\ UNCHANGED <<projects, ratings, project_reports, now,
                   comments, comment_reports>>

\* RatingForm.is_valid: value is one of the choices 1..5
RatingFormValid(h) == h % 2 = 0 /\ h \div 2 >= 1 /\ h \div 2 <= 5

\* add_rating, up to form.is_valid()
AddRatingStart(r, u, pk, h) ==
    /\ Free(r)
    /\ pk \in DOMAIN projects
    /\ LET q == [Idle EXCEPT !.kind = "add_rating", !.user = u, !.pk = pk] IN
       reqs' = [reqs EXCEPT ![r] =
          IF ~RatingFormValid(h) THEN Done(q, "302_error_rating")
          ELSE [q EXCEPT !.pc = "add_rating_get", !.data = h \div 2]]
    /\ UNCHANGED <<projects, donations, ratings, project_reports, now,
                   comments, comment_reports>>

AddRatingGet(r) ==
    /\ reqs[r].pc = "add_rating_get"
    /\ UpdateOrCreateGet(r, "add_rating_create", "add_rating_refresh")
    /\ UNCHANGED <<donations, project_reports, now, comments, comment_reports>>

AddRatingCreate(r) ==
    /\ reqs[r].pc = "add_rating_create"
    /\ UpdateOrCreateCreate(r, "add_rating_refresh")
    /\ UNCHANGED <<donations, project_reports, now, comments, comment_reports>>

AddRatingRefresh(r) ==
    /\ reqs[r].pc = "add_rating_refresh"
    /\ RefreshAggregate(r, "add_rating_save")
    /\ UNCHANGED <<projects, donations, ratings, project_reports, now,
                   comments, comment_reports>>

AddRatingSave(r) ==
    /\ reqs[r].pc = "add_rating_save"
    /\ RefreshSave(r, "302_rating_submitted")
    /\ UNCHANGED <<donations, ratings, project_reports, now,
                   comments, comment_reports>>

(* ------------------- creating and editing a project ------------------- *)

\* the fields a create or an edit request can carry; <<>> is an absent key
NoAttrs == [total_target |-> <<>>, start_time |-> <<>>, end_time |-> <<>>]

\* ProjectCreateUpdateSerializer.validate_total_target
validate_total_target(value) == value >= 100

\* ProjectCreateUpdateSerializer.validate: the times are compared only when
\* the request carries both of them
validate(attrs) ==
    (attrs.start_time # <<>> /\ attrs.end_time # <<>>)
       => /\ attrs.end_time[1] > attrs.start_time[1]
          /\ attrs.end_time[1] - attrs.start_time[1] >= 7

\* serializer.is_valid: total_target and end_time are required unless the
\* update is partial; start_time has a default and is never required
SerializerValid(attrs, partial) ==
    /\ partial \/ (attrs.total_target # <<>> /\ attrs.end_time # <<>>)
    /\ attrs.total_target # <<>> => validate_total_target(attrs.total_target[1])
    /\ validate(attrs)

\* ProjectForm.is_valid: total_target (a PositiveIntegerField: 0 and up) and
\* end_time are required; the form has no start_time
ProjectFormValid(attrs) ==
    /\ attrs.total_target # <<>> /\ attrs.total_target[1] >= 0
    /\ attrs.end_time # <<>>

\* setattr(instance, attr, value) for the fields given
SetAttrs(inst, attrs) ==
    [inst EXCEPT
       !.total_target = IF attrs.total_target # <<>> THEN attrs.total_target[1] ELSE @,
       !.start_time = IF attrs.start_time # <<>> THEN attrs.start_time[1] ELSE @,
       !.end_time = IF attrs.end_time # <<>> THEN attrs.end_time[1] ELSE @]

\* only the fields of the form
FormAttrs(attrs) == [attrs EXCEPT !.start_time = <<>>]

\* a Project row with the model's defaults (start_time defaults to now)
NewProject(u, attrs) ==
    [owner |-> u,
     total_target |-> attrs.total_target[1],
     start_time |-> IF attrs.start_time # <<>> THEN attrs.start_time[1] ELSE now,
     end_time |-> attrs.end_time[1],
     status |-> "active", is_featured |-> FALSE,
     average_rating |-> 0, rating_count |-> 0]

\* the primary key the next created project gets
PK2 == "p2"

\* the tables after the insert of the project row
Inserted(row) ==
    /\ projects' = projects @@ (PK2 :> row)
    /\ ratings' = ratings @@ [k \in {PK2} \X Users |-> <<>>]
    /\ project_reports' = project_reports @@ [k \in {PK2} \X Users |-> <<>>]

\* ProjectViewSet.create
create(r, u, attrs) ==
    LET q == [Idle EXCEPT !.kind = "create", !.user = u, !.pk = PK2] IN
    /\ Free(r)
    /\ PK2 \notin DOMAIN projects
    /\ IF ~SerializerValid(attrs, FALSE)
       THEN /\ reqs' = [reqs EXCEPT ![r] = Done(q, "400_invalid")]
            /\ UNCHANGED <<projects, ratings, project_reports>>
       ELSE /\ Inserted(NewProject(u, attrs))
            /\ reqs' = [reqs EXCEPT ![r] = Done(q, "201_created")]
    /\ UNCHANGED <<donations, now, comments, comment_reports>>

\* ProjectCreateView: form.is_valid and form_valid
ProjectCreateView(r, u, attrs) ==
    LET q == [Idle EXCEPT !.kind = "web_create", !.user = u, !.pk = PK2] IN
    /\ Free(r)
    /\ PK2 \notin DOMAIN projects
    /\ IF ~ProjectFormValid(attrs)
       THEN /\ reqs' = [reqs EXCEPT ![r] = Done(q, "200_form_errors")]
            /\ UNCHANGED <<projects, ratings, project_reports>>
       ELSE /\ Inserted(NewProject(u, FormAttrs(attrs)))
            /\ reqs' = [reqs EXCEPT ![r] = Done(q, "302_created")]
    /\ UNCHANGED <<donations, now, comments, comment_reports>>

\* ProjectViewSet.update: get_object, the owner check and is_valid; the
\* loaded instance takes the validated attributes
UpdateStart(r, u, pk, partial, attrs) ==
    /\ Free(r)
    /\ LET q == [Idle EXCEPT !.kind = "update", !.user = u, !.pk = pk] IN
       reqs' = [reqs EXCEPT ![r] =
          IF pk \notin get_queryset THEN Done(q, "404_not_found")
          ELSE IF projects[pk].owner # u THEN Done(q, "403_not_owner")
          ELSE IF ~SerializerValid(attrs, partial) THEN Done(q, "400_invalid")
          ELSE [q EXCEPT !.pc = "update_save",
                         !.inst = SetAttrs(projects[pk], attrs)]]
    /\ UNCHANGED <<projects, donations, ratings, project_reports, now,
                   comments, comment_reports>>

\* ProjectCreateUpdateSerializer.update and ProjectForm.save: instance.save()
\* writes every column of the instance as the request holds it
InstanceSave(r) ==
    /\ reqs[r].pc \in {"update_save", "web_update_save"}
    /\ projects' = [projects EXCEPT ![reqs[r].pk] = reqs[r].inst]
    /\ reqs' = [reqs EXCEPT ![r] = Done(reqs[r], "200_updated")]
    /\ UNCHANGED <<donations, ratings, project_reports, now,
                   comments, comment_reports>>

\* ProjectUpdateView: dispatch (the owner check), get_object and is_valid
ProjectUpdateViewStart(r, u, pk, attrs) ==
    /\ Free(r)
    /\ pk \in DOMAIN projects
    /\ LET q == [Idle EXCEPT !.kind = "web_update", !.user = u, !.pk = pk] IN
       reqs' = [reqs EXCEPT ![r] =
          IF projects[pk].owner # u THEN Done(q, "302_not_owner")
          ELSE IF ~ProjectFormValid(attrs) THEN Done(q, "200_form_errors")
          ELSE [q EXCEPT !.pc = "web_update_save",
                         !.inst = SetAttrs(projects[pk], FormAttrs(attrs))]]
    /\ UNCHANGED <<projects, donations, ratings, project_reports, now,
                   comments, comment_reports>>

(* ------------------------------- admin.py ----------------------------- *)

\* ProjectAdmin.set_status_active: queryset.update(status='active')
set_status_active(sel) ==
    /\ sel # {}
    /\ projects' = [pk \in DOMAIN projects |->
          IF pk \in sel THEN [projects[pk] EXCEPT !.status = "active"]
          ELSE projects[pk]]
    /\ projects' # projects
    /\ UNCHANGED <<donations, ratings, project_reports, now, reqs,
                   comments, comment_reports>>

\* ProjectAdmin.set_status_canceled: queryset.update(status='canceled')
set_status_canceled(sel) ==
    /\ sel # {}
    /\ projects' = [pk \in DOMAIN projects |->
          IF pk \in sel THEN [projects[pk] EXCEPT !.status = "canceled"]
          ELSE projects[pk]]
    /\ projects' # projects
    /\ UNCHANGED <<donations, ratings, project_reports, now, reqs,
                   comments, comment_reports>>

\* the delete without the post_delete receiver
AdminDeleteRatingNoReceiver(k) ==
    /\ ratings[k] # <<>>
    /\ ratings' = [ratings EXCEPT ![k] = Tail(@)]
    /\ UNCHANGED <<projects, donations, project_reports, now, reqs,
                   comments, comment_reports>>

\* the admin of Rating: a row is deleted, and the post_delete receiver
\* update_project_rating_summary runs in the same transaction
AdminDeleteRating(k) ==
    /\ ratings[k] # <<>>
    /\ ratings' = [ratings EXCEPT ![k] = Tail(@)]
    /\ projects' = SignalRefresh(ratings', k[1])
    /\ UNCHANGED <<donations, project_reports, now, reqs,
                   comments, comment_reports>>

\* ProjectReportAdmin: a moderator sets the status of a report
ModerateProjectReport(k, st) ==
    /\ project_reports[k] # <<>>
    /\ project_reports[k][1].status # st
    /\ project_reports' = [project_reports EXCEPT ![k][1].status = st]
    /\ UNCHANGED <<projects, donations, ratings, now, reqs,
                   comments, comment_reports>>

(* -------------------------------- clock ------------------------------- *)

Tick ==
    /\ now < MaxTime
    /\ now' = now + 1
    /\ UNCHANGED <<projects, donations, ratings, project_reports, reqs,
                   comments, comment_reports>>

(* ------------------------- the campaign system ------------------------ *)

\* a project as ProjectCreateUpdateSerializer.create stores it: a goal of
\* 1000 EGP, a campaign of seven days, one day before its end
InitProject ==
    [owner |-> "owner", total_target |-> 1000, start_time |-> 0, end_time |-> 7,
     status |-> "active", is_featured |-> FALSE,
     average_rating |-> 0, rating_count |-> 0]

Init ==
    /\ projects = [pk \in {PK} |-> InitProject]
    /\ donations = <<>>
    /\ ratings = [k \in {PK} \X Users |-> <<>>]
    /\ project_reports = [k \in {PK} \X Users |-> <<>>]
    /\ comments = <<>>
    /\ comment_reports = [k \in CommentIds \X Users |-> <<>>]
    /\ now = 6
    /\ reqs = [r \in Reqs |-> Idle]

Next ==
    \/ \E r \in Reqs, u \in Users, pk \in DOMAIN projects, h \in AmountInputs :
          DonateStart(r, u, pk, h)
    \/ \E r \in Reqs : DonateCheck(r)
    \/ \E r \in Reqs : DonateCreate(r)
    \/ \E r \in Reqs, u \in Users, pk \in DOMAIN projects, h \in AmountInputs :
          MakeDonationStart(r, u, pk, h)
    \/ \E r \in Reqs : MakeDonationSave(r)
    \/ \E r \in Reqs, u \in Users, pk \in DOMAIN projects : CancelStart(r, u, pk)
    \/ \E r \in Reqs : CancelCheck(r)
    \/ \E r \in Reqs : CancelSave(r)
    \/ \E sel \in SUBSET DOMAIN projects : set_status_active(sel)
    \/ \E sel \in SUBSET DOMAIN projects : set_status_canceled(sel)
    \/ Tick

Spec == Init /\ [][Next]_vars

(* ----------------------- funding and cancellation --------------------- *)

\* donations, cancellations and the admin's status actions within one day:
\* cancel reads neither the clock nor end_time
NextFunding ==
    \/ \E r \in Reqs, u \in Users, pk \in DOMAIN projects, h \in AmountInputs :
          DonateStart(r, u, pk, h)
    \/ \E r \in Reqs : DonateCheck(r)
    \/ \E r \in Reqs : DonateCreate(r)
    \/ \E r \in Reqs, u \in Users, pk \in DOMAIN projects, h \in AmountInputs :
          MakeDonationStart(r, u, pk, h)
    \/ \E r \in Reqs : MakeDonationSave(r)
    \/ \E r \in Reqs, u \in Users, pk \in DOMAIN projects : CancelStart(r, u, pk)
    \/ \E r \in Reqs : CancelCheck(r)
    \/ \E r \in Reqs : CancelSave(r)
    \/ \E sel \in SUBSET DOMAIN projects : set_status_active(sel)
    \/ \E sel \in SUBSET DOMAIN projects : set_status_canceled(sel)

SpecFunding == Init /\ [][NextFunding]_vars

(* -------------------------- the rating ledger ------------------------- *)

NextRating ==
    \/ \E r \in Reqs, u \in Users, pk \in DOMAIN projects, h \in RatingInputs :
          RateStart(r, u, pk, h)
    \/ \E r \in Reqs : RateGet(r)
    \/ \E r \in Reqs : RateCreate(r)
    \/ \E r \in Reqs : RateRefresh(r)
    \/ \E r \in Reqs : RateSave(r)
    \/ \E r \in Reqs, u \in Users, pk \in DOMAIN projects, h \in RatingInputs :
          AddRatingStart(r, u, pk, h)
    \/ \E r \in Reqs : AddRatingGet(r)
    \/ \E r \in Reqs : AddRatingCreate(r)
    \/ \E r \in Reqs : AddRatingRefresh(r)
    \/ \E r \in Reqs : AddRatingSave(r)
    \/ \E k \in DOMAIN ratings : AdminDeleteRating(k)

SpecRating == Init /\ [][NextRating]_vars

\* no request is being served
Quiet == \A r \in Reqs : Free(r)

\* the same handlers, one request at a time
NextRatingSerial ==
    \/ \E r \in Reqs, u \in Users, pk \in DOMAIN projects, h \in RatingInputs :
          Quiet /\ RateStart(r, u, pk, h)
    \/ \E r \in Reqs : RateGet(r)
    \/ \E r \in Reqs : RateCreate(r)
    \/ \E r \in Reqs : RateRefresh(r)
    \/ \E r \in Reqs : RateSave(r)
    \/ \E r \in Reqs, u \in Users, pk \in DOMAIN projects, h \in RatingInputs :
          Quiet /\ AddRatingStart(r, u, pk, h)
    \/ \E r \in Reqs : AddRatingGet(r)
    \/ \E r \in Reqs : AddRatingCreate(r)
    \/ \E r \in Reqs : AddRatingRefresh(r)
    \/ \E r \in Reqs : AddRatingSave(r)
    \/ \E k \in DOMAIN ratings : Quiet /\ AdminDeleteRating(k)

SpecRatingSerial == Init /\ [][NextRatingSerial]_vars

(* ------------------------------ moderation ---------------------------- *)

NextReport ==
    \/ \E r \in Reqs, u \in Users, pk \in DOMAIN projects, t \in ReportTypeInputs :
          ReportProjectStart(r, u, pk, t)
    \/ \E r \in Reqs : ReportProjectCheck(r)
    \/ \E r \in Reqs : ReportProjectSave(r)
    \/ \E k \in DOMAIN project_reports, st \in REPORT_STATUS :
          ModerateProjectReport(k, st)
    \/ \E sel \in SUBSET DOMAIN projects : set_status_active(sel)
    \/ \E sel \in SUBSET DOMAIN projects : set_status_canceled(sel)

SpecReport == Init /\ [][NextReport]_vars

(* ------------------------- reports and comments ----------------------- *)

\* the reports of projects by anyone, and the comments of a visitor and the
\* reports of them
NextReportRace ==
    \/ \E r \in Reqs, u \in Users, pk \in DOMAIN projects, t \in ReportTypeInputs :
          ReportProjectStart(r, u, pk, t)
    \/ \E r \in Reqs : ReportProjectCheck(r)
    \/ \E r \in Reqs : ReportProjectSave(r)
    \/ \E r \in Reqs, u \in Visitors, pk \in DOMAIN projects,
          parent_id \in CommentIdInputs, c \in ContentInputs :
          comment(r, u, pk, parent_id, c)
    \/ \E r \in Reqs, u \in Visitors, pk \in DOMAIN projects,
          id \in CommentIdInputs, t \in ReportTypeInputs :
          ReportCommentStart(r, u, pk, id, t)
    \/ \E r \in Reqs : ReportCommentCheck(r)
    \/ \E r \in Reqs : ReportCommentSave(r)

SpecReportRace == Init /\ [][NextReportRace]_vars

(* ------------------------------ one session -------------------------- *)

\* the slot of the session
OneSession == {"r1"}

\* every operation of the API and the two forms, requested by a visitor in
\* one session (the cancel by anyone), while the admin sets the status
NextSession ==
    \/ \E r \in OneSession, u \in Visitors, pk \in DOMAIN projects,
          h \in AmountInputs : DonateStart(r, u, pk, h)
    \/ \E r \in OneSession : DonateCheck(r)
    \/ \E r \in OneSession : DonateCreate(r)
    \/ \E r \in OneSession, u \in Visitors, pk \in DOMAIN projects,
          h \in AmountInputs : MakeDonationStart(r, u, pk, h)
    \/ \E r \in OneSession : MakeDonationSave(r)
    \/ \E r \in OneSession, u \in Users, pk \in DOMAIN projects :
          CancelStart(r, u, pk)
    \/ \E r \in OneSession : CancelCheck(r)
    \/ \E r \in OneSession : CancelSave(r)
    \/ \E r \in OneSession, u \in Visitors, pk \in DOMAIN projects,
          h \in RatingInputs : RateStart(r, u, pk, h)
    \/ \E r \in OneSession : RateGet(r)
    \/ \E r \in OneSession : RateCreate(r)
    \/ \E r \in OneSession : RateRefresh(r)
    \/ \E r \in OneSession : RateSave(r)
    \/ \E r \in OneSession, u \in Visitors, pk \in DOMAIN projects,
          h \in RatingInputs : AddRatingStart(r, u, pk, h)
    \/ \E r \in OneSession : AddRatingGet(r)
    \/ \E r \in OneSession : AddRatingCreate(r)
    \/ \E r \in OneSession : AddRatingRefresh(r)
    \/ \E r \in OneSession : AddRatingSave(r)
    \/ \E r \in OneSession, u \in Visitors, pk \in DOMAIN projects,
          t \in ReportTypeInputs : ReportProjectStart(r, u, pk, t)
    \/ \E r \in OneSession : ReportProjectCheck(r)
    \/ \E r \in OneSession : ReportProjectSave(r)
    \/ \E r \in OneSession, u \in Visitors, pk \in DOMAIN projects,
          parent_id \in CommentIdInputs, c \in ContentInputs :
          comment(r, u, pk, parent_id, c)
    \/ \E r \in OneSession, u \in Visitors, pk \in DOMAIN projects,
          id \in CommentIdInputs, t \in ReportTypeInputs :
          ReportCommentStart(r, u, pk, id, t)
    \/ \E r \in OneSession : ReportCommentCheck(r)
    \/ \E r \in OneSession : ReportCommentSave(r)
    \/ \E sel \in SUBSET DOMAIN projects : set_status_active(sel)
    \/ \E sel \in SUBSET DOMAIN projects : set_status_canceled(sel)

SpecSession == Init /\ [][NextSession]_vars

\* the core operations of the API in one session (one accepted amount and
\* one accepted rating value) while a moderator works on the reports
NextModerated ==
    \/ \E r \in OneSession, u \in Visitors, pk \in DOMAIN projects :
          DonateStart(r, u, pk, 20)
    \/ \E r \in OneSession : DonateCheck(r)
    \/ \E r \in OneSession : DonateCreate(r)
    \/ \E r \in OneSession, u \in Users, pk \in DOMAIN projects :
          CancelStart(r, u, pk)
    \/ \E r \in OneSession : CancelCheck(r)
    \/ \E r \in OneSession : CancelSave(r)
    \/ \E r \in OneSession, u \in Visitors, pk \in DOMAIN projects :
          RateStart(r, u, pk, 6)
    \/ \E r \in OneSession : RateGet(r)
    \/ \E r \in OneSession : RateCreate(r)
    \/ \E r \in OneSession : RateRefresh(r)
    \/ \E r \in OneSession : RateSave(r)
    \/ \E r \in OneSession, u \in Visitors, pk \in DOMAIN projects,
          t \in ReportTypeInputs : ReportProjectStart(r, u, pk, t)
    \/ \E r \in OneSession : ReportProjectCheck(r)
    \/ \E r \in OneSession : ReportProjectSave(r)
    \/ \E r \in OneSession, u \in Visitors, pk \in DOMAIN projects,
          parent_id \in CommentIdInputs, c \in ContentInputs :
          comment(r, u, pk, parent_id, c)
    \/ \E r \in OneSession, u \in Visitors, pk \in DOMAIN projects,
          id \in CommentIdInputs, t \in ReportTypeInputs :
          ReportCommentStart(r, u, pk, id, t)
    \/ \E r \in OneSession : ReportCommentCheck(r)
    \/ \E r \in OneSession : ReportCommentSave(r)
    \/ \E k \in DOMAIN project_reports, st \in REPORT_STATUS :
          ModerateProjectReport(k, st)

SpecModerated == Init /\ [][NextModerated]_vars

(* --------------------------- the calculator -------------------------- *)

\* total_target as the project form accepts it (a PositiveIntegerField:
\* zero and up) and as the API accepts it (100 and up)
TargetInputs == {0, 3, 100, 1000}

\* the project created with any of these targets
InitTargets ==
    /\ projects \in {[pk \in {PK} |-> [InitProject EXCEPT !.total_target = t]] :
                        t \in TargetInputs}
    /\ donations = <<>>
    /\ ratings = [k \in {PK} \X Users |-> <<>>]
    /\ project_reports = [k \in {PK} \X Users |-> <<>>]
    /\ comments = <<>>
    /\ comment_reports = [k \in CommentIds \X Users |-> <<>>]
    /\ now = 6
    /\ reqs = [r \in Reqs |-> Idle]

\* the donations that make the total grow
NextDonations ==
    \/ \E r \in Reqs, u \in Users, pk \in DOMAIN projects, h \in AmountInputs :
          DonateStart(r, u, pk, h)
    \/ \E r \in Reqs : DonateCheck(r)
    \/ \E r \in Reqs : DonateCreate(r)
    \/ \E r \in Reqs, u \in Users, pk \in DOMAIN projects, h \in AmountInputs :
          MakeDonationStart(r, u, pk, h)
    \/ \E r \in Reqs : MakeDonationSave(r)

SpecPercent == InitTargets /\ [][NextDonations]_vars

(* ----------------------------- two projects -------------------------- *)

\* two projects of the same owner, created alike
InitTwoProjects ==
    /\ projects = [pk \in {PK, PK2} |-> InitProject]
    /\ donations = <<>>
    /\ ratings = [k \in {PK, PK2} \X Users |-> <<>>]
    /\ project_reports = [k \in {PK, PK2} \X Users |-> <<>>]
    /\ comments = <<>>
    /\ comment_reports = [k \in CommentIds \X Users |-> <<>>]
    /\ now = 6
    /\ reqs = [r \in Reqs |-> Idle]

\* the donations of a visitor to either project
NextVisitorDonations ==
    \/ \E r \in Reqs, u \in Visitors, pk \in DOMAIN projects, h \in AmountInputs :
          DonateStart(r, u, pk, h)
    \/ \E r \in Reqs : DonateCheck(r)
    \/ \E r \in Reqs : DonateCreate(r)
    \/ \E r \in Reqs, u \in Visitors, pk \in DOMAIN projects, h \in AmountInputs :
          MakeDonationStart(r, u, pk, h)
    \/ \E r \in Reqs : MakeDonationSave(r)

SpecTwoProjects == InitTwoProjects /\ [][NextVisitorDonations]_vars

(* --------------------------- reported comments ------------------------ *)

\* two projects, each with one comment of its owner
InitCommented ==
    /\ projects = [pk \in {PK, PK2} |-> InitProject]
    /\ donations = <<>>
    /\ ratings = [k \in {PK, PK2} \X Users |-> <<>>]
    /\ project_reports = [k \in {PK, PK2} \X Users |-> <<>>]
    /\ comments = <<NewComment(PK, "owner", "good luck", 0),
                    NewComment(PK2, "owner", "good luck", 0)>>
    /\ comment_reports = [k \in (1..Len(comments)) \X Users |-> <<>>]
    /\ now = 6
    /\ reqs = [r \in Reqs |-> Idle]

\* a visitor reports the comments and the projects, one request at a time
NextCommentReports ==
    \/ \E r \in OneSession, u \in Visitors, pk \in DOMAIN projects,
          id \in 0..Len(comments), t \in ReportTypeInputs :
          ReportCommentStart(r, u, pk, id, t)
    \/ \E r \in OneSession : ReportCommentCheck(r)
    \/ \E r \in OneSession : ReportCommentSave(r)
    \/ \E r \in OneSession, u \in Visitors, pk \in DOMAIN projects,
          t \in ReportTypeInputs : ReportProjectStart(r, u, pk, t)
    \/ \E r \in OneSession : ReportProjectCheck(r)
    \/ \E r \in OneSession : ReportProjectSave(r)

SpecCommentReports == InitCommented /\ [][NextCommentReports]_vars

(* ---------------------- creating and editing projects ----------------- *)

\* the values a request gives for a field, or <<>> when it leaves it out
TargetEdits == {<<>>, <<0>>, <<50>>, <<2000>>}
StartEdits == {<<>>, <<2>>}
EndEdits == {<<>>, <<1>>, <<9>>}
AttrInputs ==
    [total_target : TargetEdits, start_time : StartEdits, end_time : EndEdits]

NextEdit ==
    \/ \E r \in OneSession, u \in Visitors, a \in AttrInputs : create(r, u, a)
    \/ \E r \in OneSession, u \in Visitors, a \in AttrInputs :
          ProjectCreateView(r, u, a)
    \/ \E r \in OneSession, u \in Users, pk \in DOMAIN projects,
          partial \in BOOLEAN, a \in AttrInputs :
          UpdateStart(r, u, pk, partial, a)
    \/ \E r \in OneSession, u \in Users, pk \in DOMAIN projects,
          a \in AttrInputs : ProjectUpdateViewStart(r, u, pk, a)
    \/ \E r \in OneSession : InstanceSave(r)
    \/ Tick

SpecEdit == Init /\ [][NextEdit]_vars

(* ------------------------ the life of a campaign ---------------------- *)

\* the project created with any of the positive targets
InitCampaign ==
    /\ projects \in {[pk \in {PK} |-> [InitProject EXCEPT !.total_target = t]] :
                        t \in {x \in TargetInputs : x > 0}}
    /\ donations = <<>>
    /\ ratings = [k \in {PK} \X Users |-> <<>>]
    /\ project_reports = [k \in {PK} \X Users |-> <<>>]
    /\ comments = <<>>
    /\ comment_reports = [k \in CommentIds \X Users |-> <<>>]
    /\ now = 6
    /\ reqs = [r \in Reqs |-> Idle]

\* donations by a visitor (as many as the table is let to hold), the cancel
\* requests and the passing of time, for a project of any positive target
NextCampaign ==
    \/ \E r \in OneSession, u \in Visitors, pk \in DOMAIN projects,
          h \in AmountInputs :
          Len(donations) < MaxDonations /\ DonateStart(r, u, pk, h)
    \/ \E r \in OneSession : DonateCheck(r)
    \/ \E r \in OneSession : DonateCreate(r)
    \/ \E r \in OneSession, u \in Visitors, pk \in DOMAIN projects,
          h \in AmountInputs :
          Len(donations) < MaxDonations /\ MakeDonationStart(r, u, pk, h)
    \/ \E r \in OneSession : MakeDonationSave(r)
    \/ \E r \in OneSession, u \in Users, pk \in DOMAIN projects :
          CancelStart(r, u, pk)
    \/ \E r \in OneSession : CancelCheck(r)
    \/ \E r \in OneSession : CancelSave(r)
    \/ Tick

\* a request that was received is served to its end
Served(r) ==
    \/ DonateCheck(r) \/ DonateCreate(r) \/ MakeDonationSave(r)
    \/ CancelCheck(r) \/ CancelSave(r)

\* the server answers every request, the clock runs and requests keep
\* coming in
SpecCampaign ==
    /\ InitCampaign
    /\ [][NextCampaign]_vars
    /\ WF_vars(Tick)
    /\ \A r \in OneSession : WF_vars(Served(r))
    /\ WF_vars(NextCampaign)

\* an edit of the target, of the end, of both or of neither
RaceEdits ==
    {a \in AttrInputs : /\ a.start_time = <<>>
                        /\ a.total_target \in {<<>>, <<2000>>}
                        /\ a.end_time \in {<<>>, <<9>>}}

\* the owner edits the project while they cancel it and a visitor rates it
\* with three stars
NextEditRace ==
    \/ \E r \in Reqs, pk \in DOMAIN projects, partial \in BOOLEAN,
          a \in RaceEdits : UpdateStart(r, projects[pk].owner, pk, partial, a)
    \/ \E r \in Reqs, pk \in DOMAIN projects, a \in RaceEdits :
          ProjectUpdateViewStart(r, projects[pk].owner, pk, a)
    \/ \E r \in Reqs : InstanceSave(r)
    \/ \E r \in Reqs, pk \in DOMAIN projects :
          CancelStart(r, projects[pk].owner, pk)
    \/ \E r \in Reqs : CancelCheck(r)
    \/ \E r \in Reqs : CancelSave(r)
    \/ \E r \in Reqs, u \in Visitors, pk \in DOMAIN projects :
          RateStart(r, u, pk, 6)
    \/ \E r \in Reqs : RateGet(r)
    \/ \E r \in Reqs : RateCreate(r)
    \/ \E r \in Reqs : RateRefresh(r)
    \/ \E r \in Reqs : RateSave(r)

SpecEditRace == Init /\ [][NextEditRace]_vars

(* ============================ properties ============================== *)

\* the step that ends the request in slot r
Finishes(r) == reqs'[r] # reqs[r] /\ reqs'[r].pc = "done"

\* some step of the request in slot r
Steps(r) == reqs'[r] # reqs[r]

TerminalStatuses == {"completed", "canceled", "expired"}

\* the campaign is active as section 4.2 of the specification defines it
ActiveCampaign(row) == row.status = "active" /\ now <= row.end_time

(* C1: once the stored status of a project is completed, canceled or      *)
(* expired, no step of the system changes it.                              *)
TerminalStatusIsFinal ==
    [][\A pk \in DOMAIN projects :
          projects[pk].status \in TerminalStatuses
             => projects'[pk].status = projects[pk].status]_vars

(* C2: a Donation row is appended only while the project it goes to is an *)
(* active campaign (stored status active and end_time not yet passed).     *)
DonationOnlyToActiveCampaign ==
    [][Len(donations') > Len(donations)
          => ActiveCampaign(projects[donations'[Len(donations')].project])]_vars

(* C3: a cancel request succeeds only if the requester is the owner, the  *)
(* stored status it loaded was active and the funding it computed was      *)
(* below 25 percent; the step that succeeds stores the status canceled.    *)
CancelSucceedsOnlyUnderGuards ==
    [][\A r \in Reqs :
          (Finishes(r) /\ reqs'[r].kind = "cancel"
                       /\ reqs'[r].resp = "200_cancelled")
             => /\ reqs'[r].user = projects[reqs'[r].pk].owner
                /\ reqs'[r].note[1] = "active"
                /\ reqs'[r].note[2] < 25
                /\ projects'[reqs'[r].pk].status = "canceled"]_vars

\* a cancel has succeeded on a project of target 1000 holding 240
CancelledAt24Percent ==
    \E r \in Reqs :
       /\ reqs[r].pc = "done" /\ reqs[r].kind = "cancel"
       /\ reqs[r].resp = "200_cancelled"
       /\ reqs[r].note = <<"active", 24>>
       /\ projects[reqs[r].pk].total_target = 1000
       /\ total_donations_collected(reqs[r].pk) = 240
       /\ projects[reqs[r].pk].status = "canceled"

(* C4: no step of a cancel request other than the one that succeeds       *)
(* changes a stored row: a cancel that fails a guard leaves the project    *)
(* and every table as they were.                                           *)
FailedCancelWritesNothing ==
    [][\A r \in Reqs :
          (Steps(r) /\ reqs'[r].kind = "cancel"
                    /\ reqs'[r].resp # "200_cancelled")
             => UNCHANGED <<projects, donations, ratings, project_reports,
                            comments, comment_reports>>]_vars

\* the owner's cancel was refused at 25 percent or more, the project active
CancelRefusedForFunding ==
    \E r \in Reqs :
       /\ reqs[r].pc = "done" /\ reqs[r].kind = "cancel"
       /\ reqs[r].resp = "400_funded_25_plus"
       /\ reqs[r].user = projects[reqs[r].pk].owner
       /\ total_donations_collected(reqs[r].pk) * 4 >= projects[reqs[r].pk].total_target
       /\ projects[reqs[r].pk].status = "active"

(* C5: the owner's cancel of a project that is not active is answered by  *)
(* the not-active error naming the status, and of an active project funded *)
(* 25 percent or more by the funding error.                                *)
CancelErrorNamesTheGuard ==
    \A r \in Reqs :
       (reqs[r].pc = "done" /\ reqs[r].kind = "cancel"
           /\ reqs[r].user = projects[reqs[r].pk].owner)
          => /\ reqs[r].note[1] # "active"
                  => reqs[r].resp = "400_already_" \o reqs[r].note[1]
             /\ (Len(reqs[r].note) = 2 /\ reqs[r].note[2] >= 25)
                  => reqs[r].resp = "400_funded_25_plus"

(* C6: every Donation row has an amount of at least 1.                     *)
DonationAmountsPositive ==
    \A i \in 1..Len(donations) : donations[i].amount > 0

\* the cached summary of project pk is the average and the count of its rows
SummaryMatchesRows(pk) ==
    LET vals == RatingRows(ratings, pk, Users) IN
    /\ projects[pk].rating_count = Len(vals)
    /\ projects[pk].average_rating * Len(vals) = SumValues(vals) * AvgScale
    /\ vals = <<>> => projects[pk].average_rating = 0

RatingDone == {"201_created", "302_rating_submitted"}

(* C7: with the rating requests and deletions served one after the other, *)
(* whenever none is being served the cached average_rating and             *)
(* rating_count of every project are the average and the count of its      *)
(* Rating rows (0.0 and 0 without rows).                                   *)
RatingSummaryMatchesRows ==
    Quiet => \A pk \in DOMAIN projects : SummaryMatchesRows(pk)

\* ratings 3 and 5 have been submitted: count 2, average 4.0
TwoRatingsSummarised ==
    /\ Quiet
    /\ \E r \in Reqs : reqs[r].pc = "done" /\ reqs[r].resp \in RatingDone
    /\ projects[PK].rating_count = 2
    /\ projects[PK].average_rating = 4 * AvgScale

(* C8: after two rating submissions by different users on one project,    *)
(* served at the same time, have both finished, the persisted summary is   *)
(* the aggregate over both ratings.                                        *)
ConcurrentRatingsSummarised ==
    \A r, q \in Reqs :
       (/\ reqs[r].pc = "done" /\ reqs[q].pc = "done"
        /\ reqs[r].resp \in RatingDone /\ reqs[q].resp \in RatingDone
        /\ reqs[r].pk = reqs[q].pk /\ reqs[r].user # reqs[q].user
        /\ Len(ratings[<<reqs[r].pk, reqs[r].user>>]) = 1
        /\ Len(ratings[<<reqs[q].pk, reqs[q].user>>]) = 1)
          => SummaryMatchesRows(reqs[r].pk)

(* C9: there is never more than one Rating row for a project and a user,  *)
(* and a step of a rating request that writes the table leaves exactly one *)
(* row for its project and user, holding the submitted value.              *)
OneRatingPerUser ==
    /\ [](\A k \in DOMAIN ratings : Len(ratings[k]) <= 1)
    /\ [][\A r \in Reqs :
             (Steps(r) /\ ratings' # ratings)
                => ratings'[<<reqs[r].pk, reqs[r].user>>] = <<reqs[r].data>>]_vars

\* a rating of 3 has been overwritten by a submission of 5
RatingThreeThenFive ==
    \E r \in Reqs :
       /\ reqs[r].pc = "done" /\ reqs[r].resp \in RatingDone
       /\ reqs[r].note = <<"updated", 3>>
       /\ ratings[<<reqs[r].pk, reqs[r].user>>] = <<5>>

(* C10: a report_project request whose duplicate pre-check ran while a    *)
(* report of that project by that reporter was stored is answered          *)
(* already-reported, and exactly one such report is stored.                *)
SecondReportRejected ==
    \A r \in Reqs :
       (reqs[r].pc = "done" /\ reqs[r].kind = "report_project"
           /\ Len(reqs[r].note) = 1 /\ reqs[r].note[1] >= 1)
          => /\ reqs[r].resp = "400_already_reported"
             /\ Len(project_reports[<<reqs[r].pk, reqs[r].user>>]) = 1

\* a second report was refused while the first one is already resolved
SecondReportOfResolved ==
    \E r \in Reqs :
       /\ reqs[r].pc = "done" /\ reqs[r].kind = "report_project"
       /\ reqs[r].resp = "400_already_reported"
       /\ reqs[r].note = <<1>>
       /\ project_reports[<<reqs[r].pk, reqs[r].user>>][1].status = "resolved"

(* C11: no state holds two reports of one project, or of one comment, by  *)
(* the same reporter, also when two requests of that reporter are served   *)
(* at the same time and both pass the duplicate pre-check: the insert of   *)
(* the second is refused by the unique constraint.                         *)
OneReportPerReporter ==
    /\ \A k \in DOMAIN project_reports : Len(project_reports[k]) <= 1
    /\ \A k \in DOMAIN comment_reports : Len(comment_reports[k]) <= 1

\* two reports of one project by one reporter both passed the pre-check;
\* one was stored and the other refused at the insert
BothPassedPreCheck ==
    \E r, q \in Reqs :
       /\ r # q
       /\ reqs[r].pc = "done" /\ reqs[q].pc = "done"
       /\ reqs[r].kind = "report_project" /\ reqs[q].kind = "report_project"
       /\ reqs[r].user = reqs[q].user /\ reqs[r].pk = reqs[q].pk
       /\ reqs[r].note = <<0>> /\ reqs[q].note = <<0>>
       /\ reqs[r].resp = "201_created"
       /\ reqs[q].resp = "500_integrity_error"
       /\ Len(project_reports[<<reqs[r].pk, reqs[r].user>>]) = 1

DonationKinds == {"donate", "make_donation"}

DonationDone == {"201_created", "302_thank_you"}

(* C12: a step changes the Donation table only by appending one row, as   *)
(* the last step of a successful donation: the rows before it are          *)
(* unchanged, the new row is the donor's, and the total of the project     *)
(* grows by exactly the amount donated (request amounts are in halves).    *)
(* Every successful donation is such a step.                               *)
DonationAppendsOneRow ==
    [][/\ donations' # donations
             => \E r \in Reqs :
                   /\ Finishes(r) /\ reqs'[r].kind \in DonationKinds
                   /\ reqs'[r].resp \in DonationDone
                   /\ Len(donations') = Len(donations) + 1
                   /\ SubSeq(donations', 1, Len(donations)) = donations
                   /\ donations'[Len(donations')].project = reqs[r].pk
                   /\ donations'[Len(donations')].user = reqs[r].user
                   /\ 2 * SumAmounts(RowsOf(donations', reqs[r].pk))
                         = 2 * total_donations_collected(reqs[r].pk) + reqs[r].data
       /\ \A r \in Reqs :
             (Finishes(r) /\ reqs'[r].kind \in DonationKinds
                         /\ reqs'[r].resp \in DonationDone)
                => donations' # donations]_vars

(* C13: the percentage funded of every project is between 0 and 100, is  *)
(* 0 when the target is 0 and 100 when the total has reached the target,   *)
(* and does not go down when the total grows.                              *)
PercentFundedInRange ==
    /\ [](\A pk \in DOMAIN projects :
            LET pct == percent_funded(projects[pk], pk)
                target == projects[pk].total_target IN
            /\ pct >= 0 /\ pct <= 100
            /\ target = 0 => pct = 0
            /\ (target > 0 /\ total_donations_collected(pk) >= target)
                  => pct = 100)
    /\ [][\A pk \in DOMAIN projects :
             total_donations_collected(pk)' >= total_donations_collected(pk)
                => percent_funded(projects[pk], pk)'
                      >= percent_funded(projects[pk], pk)]_vars

\* a project of target 100 has collected 250: funded 100 percent
FundedBeyondTarget ==
    /\ projects[PK].total_target = 100
    /\ total_donations_collected(PK) = 250
    /\ percent_funded(projects[PK], PK) = 100

(* C14: the total of a project without Donation rows is 0, and a row     *)
(* appended for a project adds its amount to the total of that project     *)
(* and leaves the total of every other project as it was.                  *)
TotalCountsOwnRowsOnly ==
    /\ [](\A pk \in DOMAIN projects :
            (\A i \in 1..Len(donations) : donations[i].project # pk)
               => total_donations_collected(pk) = 0)
    /\ [][Len(donations') = Len(donations) + 1
             => LET d == donations'[Len(donations')] IN
                \A pk \in DOMAIN projects :
                   total_donations_collected(pk)' =
                      total_donations_collected(pk)
                         + (IF d.project = pk THEN d.amount ELSE 0)]_vars

\* one project has collected 240 and the other 10
TwoProjectsFunded ==
    /\ total_donations_collected(PK) = 240
    /\ total_donations_collected(PK2) = 10
    /\ Len(donations) = 2

(* C15: is_active_campaign of a project is true exactly when its stored  *)
(* status is active and the current time is at most its end_time, the      *)
(* instant of end_time included.                                           *)
ActiveUntilEndTimeIncluded ==
    \A pk \in DOMAIN projects :
       is_active_campaign(projects[pk]) <=> ActiveCampaign(projects[pk])

\* donate goes on to store a donation for the project
DonateTreatsAsActive(pk) ==
    pk \in get_queryset /\ is_active_campaign(projects[pk])

\* cancel goes on to its funding check for the project
CancelTreatsAsActive(pk) ==
    pk \in get_queryset /\ ~CancelNotActive(projects[pk])

\* the project list shows the project
ListShows(pk) == pk \in get_queryset

(* C16: at every time and for every project, donate, cancel and the list  *)
(* filter agree on whether the project is an active campaign.              *)
OneDefinitionOfActive ==
    \A pk \in DOMAIN projects :
       /\ DonateTreatsAsActive(pk) <=> CancelTreatsAsActive(pk)
       /\ CancelTreatsAsActive(pk) <=> ListShows(pk)

\* the submitted value (in halves) is one of 1, 2, 3, 4, 5
ValueInRange(h) == h \in {2, 4, 6, 8, 10}

RatingRefused ==
    {"400_value_required", "400_value_out_of_range", "302_error_rating"}

(* C17: every Rating row holds a whole value from 1 to 5, and a rating    *)
(* submission of any other value is answered by the invalid-value error    *)
(* and changes neither the Rating rows nor the cached summary.             *)
RatingOutsideRangeRefused ==
    /\ [](\A k \in DOMAIN ratings : \A i \in 1..Len(ratings[k]) :
            ratings[k][i] \in 1..5)
    /\ [][\A r \in Reqs, u \in Users, pk \in DOMAIN projects, h \in RatingInputs :
             (/\ ~ValueInRange(h)
              /\ RateStart(r, u, pk, h) \/ AddRatingStart(r, u, pk, h))
                => /\ reqs'[r].pc = "done"
                   /\ reqs'[r].resp \in RatingRefused
                   /\ UNCHANGED <<ratings, projects>>]_vars

(* C18: the handler's own call of update_rating_summary, which follows   *)
(* the call the receiver made for the same write with no rating written    *)
(* in between, computes the average and the count already stored and       *)
(* leaves the project row as it was.                                       *)
SecondRefreshChangesNothing ==
    [][\A r \in Reqs :
          (Steps(r) /\ reqs[r].pc \in {"rate_save", "add_rating_save"})
             => /\ reqs[r].seen.average_rating
                      = projects[reqs[r].pk].average_rating
                /\ reqs[r].seen.rating_count
                      = projects[reqs[r].pk].rating_count
                /\ projects' = projects]_vars

\* a first rating of 5 has been stored and summarised by both calls
FirstRatingRefreshedTwice ==
    \E r \in Reqs :
       /\ reqs[r].pc = "done" /\ reqs[r].resp \in RatingDone
       /\ reqs[r].note = <<"created">>
       /\ projects[reqs[r].pk].rating_count = 1
       /\ projects[reqs[r].pk].average_rating = 5 * AvgScale

\* the amounts of the first n Donation rows that belong to project pk
RECURSIVE CommittedUpTo(_, _)
CommittedUpTo(pk, n) ==
    IF n = 0 THEN 0
    ELSE CommittedUpTo(pk, n - 1)
            + (IF donations[n].project = pk THEN donations[n].amount ELSE 0)

(* C19: the funding check of a cancel decides on the total of all Donation *)
(* rows of the project stored at the time of the check, those stored since *)
(* the cancel loaded the project included.                                 *)
CancelChecksCommittedTotal ==
    [][\A r \in Reqs :
          (Steps(r) /\ reqs[r].pc = "cancel_check")
             => LET pk == reqs[r].pk
                    total == CommittedUpTo(pk, Len(donations))
                    target == reqs[r].inst.total_target IN
                /\ reqs'[r].note[2] = Min(100, (total * 100) \div target)
                /\ reqs'[r].resp = "400_funded_25_plus" <=> total * 4 >= target
                /\ reqs'[r].pc = "cancel_save" <=> total * 4 < target]_vars

\* a cancel that loaded the project when nothing was collected has checked
\* after a donation of 240 was stored, and has seen 24 percent
CheckSawLaterDonation ==
    \E r \in Reqs :
       /\ reqs[r].pc = "cancel_save"
       /\ reqs[r].inst.total_donations_annotated = 0
       /\ reqs[r].note = <<"active", 24>>
       /\ total_donations_collected(reqs[r].pk) = 240

\* the fields of a Project row other than the cached rating summary
OwnFields(row) ==
    [f \in DOMAIN row \ {"average_rating", "rating_count"} |-> row[f]]

LedgerKinds ==
    {"donate", "make_donation", "rate", "add_rating", "report_project",
     "report_comment"}

(* C20: no step of a donation, rating or report request changes a field   *)
(* of a Project row other than average_rating and rating_count, and only   *)
(* the steps of a rating request change those two.                         *)
LedgersLeaveProjectRow ==
    [][\A r \in Reqs :
          (Steps(r) /\ reqs'[r].kind \in LedgerKinds)
             => /\ \A pk \in DOMAIN projects :
                      OwnFields(projects'[pk]) = OwnFields(projects[pk])
                /\ reqs'[r].kind \notin {"rate", "add_rating"}
                      => projects' = projects]_vars

\* a rating was stored and summarised for a project whose status the admin
\* has set to canceled
RatedWhileCanceled ==
    \E r \in Reqs :
       /\ reqs[r].pc = "done" /\ reqs[r].kind = "rate"
       /\ reqs[r].resp = "201_created"
       /\ projects[reqs[r].pk].status = "canceled"
       /\ projects[reqs[r].pk].rating_count = 1

(* C21: a rating of a value from 1 to 5 and a comment with a content are  *)
(* accepted whatever the stored status of the project: the rating request  *)
(* goes on to store its row and the comment is recorded, for a project     *)
(* that is not active as for an active one.                                *)
RatingAndCommentAnyStatus ==
    [][\A r \in Reqs, u \in Users, pk \in DOMAIN projects :
          /\ \A h \in RatingInputs :
                (ValueInRange(h) /\ RateStart(r, u, pk, h))
                   => reqs'[r].pc = "rate_get"
          /\ \A c \in ContentInputs :
                (CommentSerializerValid(c) /\ Len(comments) < MaxComments
                    /\ comment(r, u, pk, 0, c))
                   => /\ reqs'[r].resp = "201_created"
                      /\ Len(comments') = Len(comments) + 1]_vars

\* C22: every project row has end_time after start_time, however the project
\* was created or edited
EndTimeAfterStartTime ==
    \A pk \in DOMAIN projects :
       projects[pk].end_time > projects[pk].start_time

\* C26: every project row has a strictly positive total_target, however the
\* project was created or edited
TotalTargetPositive ==
    \A pk \in DOMAIN projects : projects[pk].total_target > 0

\* the project has collected its target
Funded(pk) ==
    /\ projects[pk].total_target > 0
    /\ total_donations_collected(pk) >= projects[pk].total_target

\* C23: an active project that has collected its target becomes completed,
\* and an active project whose end_time has passed leaves the active status
\* (expired, or completed or canceled before that)
CampaignLeavesActive ==
    /\ (projects[PK].status = "active" /\ Funded(PK))
          ~> projects[PK].status = "completed"
    /\ (projects[PK].status = "active" /\ now > projects[PK].end_time)
          ~> projects[PK].status \in TerminalStatuses

\* the rows of a report table that were there keep their status, and the
\* rows that are new are pending
StatusKept(old, new) ==
    \A k \in DOMAIN old :
       /\ Len(new[k]) >= Len(old[k])
       /\ \A i \in 1..Len(new[k]) :
             IF i <= Len(old[k]) THEN new[k][i].status = old[k][i].status
                                 ELSE new[k][i].status = "pending"

\* C24: a new report is pending and, except for the moderator's step, no
\* step changes the status of a report that exists
ReportsChangeOnlyByModeration ==
    [][\/ \E k \in DOMAIN project_reports, st \in REPORT_STATUS :
             ModerateProjectReport(k, st)
       \/ /\ StatusKept(project_reports, project_reports')
          /\ StatusKept(comment_reports, comment_reports')]_vars

\* a comment was reported after the report of the project had been resolved
ReportedAfterModeration ==
    /\ project_reports[<<PK, "alice">>] # <<>>
    /\ project_reports[<<PK, "alice">>][1].status = "resolved"
    /\ comment_reports[<<1, "alice">>] # <<>>
    /\ reqs["r1"].kind = "report_comment"
    /\ reqs["r1"].resp = "201_created"

\* C25: the duplicate check of report_comment is per comment and reporter: a
\* request for a pair that has a row is refused and adds nothing, a valid
\* request for a pair that has none goes through whatever else its reporter
\* has reported (a report of the project likewise), and a comment id that is
\* not a comment of the addressed project is answered not found and adds
\* nothing
CommentReportedOncePerComment ==
    [][\A r \in Reqs :
         /\ (ReportCommentCheck(r) \/ ReportCommentSave(r)) =>
               LET k == <<reqs[r].data[1], reqs[r].user>> IN
               IF comment_reports[k] # <<>>
               THEN /\ reqs'[r].pc = "done"
                    /\ reqs'[r].resp # "201_created"
                    /\ UNCHANGED comment_reports
               ELSE IF reqs[r].pc = "report_comment_check"
               THEN reqs'[r].pc = "report_comment_save"
               ELSE ReportSerializerValid(reqs[r].data[2]) =>
                       /\ reqs'[r].resp = "201_created"
                       /\ Len(comment_reports'[k]) = 1
         /\ (ReportProjectCheck(r)
                /\ project_reports[<<reqs[r].pk, reqs[r].user>>] = <<>>)
               => reqs'[r].pc = "report_save"
         /\ \A u \in Visitors, pk \in DOMAIN projects,
               id \in 1..Len(comments), t \in ReportTypeInputs :
               (ReportCommentStart(r, u, pk, id, t) /\ comments[id].project # pk)
                  => /\ reqs'[r].resp = "404_comment_not_found"
                     /\ UNCHANGED comment_reports]_vars

\* the visitor has reported both comments and the project, and was then
\* refused a second report of a comment
ReportedBothComments ==
    /\ comment_reports[<<1, "alice">>] # <<>>
    /\ comment_reports[<<2, "alice">>] # <<>>
    /\ project_reports[<<PK, "alice">>] # <<>>
    /\ reqs["r1"].kind = "report_comment"
    /\ reqs["r1"].resp = "400_already_reported"

\* C27: every list of the donations of a project that a retrieval can return
\* starts with the donation stored last, and no later entry of the list is
\* newer than an earlier one
DonationsNewestFirst ==
    \A pk \in DOMAIN projects :
       LET rows == RowsOf(donations, pk) IN
       rows # <<>> =>
          /\ DonationsAll(pk) # {}
          /\ \A L \in DonationsAll(pk) :
                /\ L[1].donated_at = rows[Len(rows)].donated_at
                /\ \A i, j \in 1..Len(L) :
                      i < j => L[j].donated_at <= L[i].donated_at

\* two donations of different days are listed, the later one first
LaterDonationListedFirst ==
    \E L \in DonationsAll(PK) :
       /\ Len(L) = 2
       /\ L[1].donated_at > L[2].donated_at
       /\ L[1] = RowsOf(donations, PK)[2]

\* C28: the save of an owner's edit leaves the status and the rating summary
\* of the project as the store holds them at the time of the save
EditKeepsStatusAndSummary ==
    [][\A r \in Reqs :
         InstanceSave(r) =>
            LET pk == reqs[r].pk IN
            /\ projects'[pk].status = projects[pk].status
            /\ projects'[pk].average_rating = projects[pk].average_rating
            /\ projects'[pk].rating_count = projects[pk].rating_count]_vars

\* C29: when a cancel writes the status canceled, the Donation rows of the
\* project stored at that moment add up to less than 25% of its target
CancelWritesUnderQuarter ==
    [][\A r \in Reqs :
         CancelSave(r) =>
            4 * total_donations_collected(reqs[r].pk)
               < projects[reqs[r].pk].total_target]_vars

\* C30: once the owner's cancel of a project has succeeded no Donation row
\* is added to it: no step of a donation, in flight or later and through
\* either entry point, makes its rows grow while its stored status is
\* canceled
NoDonationAfterCancel ==
    [][\A pk \in DOMAIN projects :
         (/\ projects[pk].status = "canceled"
          /\ \E q \in Reqs : /\ reqs[q].kind = "cancel" /\ reqs[q].pk = pk
                             /\ reqs[q].resp = "200_cancelled")
            => RowsOf(donations', pk) = RowsOf(donations, pk)]_vars

====
